---- MODULE Spec2Model ----
(***************************************************************************)
(* Ticket_Sorter: a desktop utility that OCRs ticket images / PDFs, pulls  *)
(* 15 named fields out of every page with a table of regular expressions   *)
(* and exports the rows to a spreadsheet.                                   *)
(*                                                                         *)
(* The repository holds two variants of the same program,                  *)
(* src/ticket_app.py and src/ticket_sorter.py.  Every state variable of    *)
(* the application is a function of the variant, and every action drives   *)
(* both variants with the same user input and the same OCR outcomes, so    *)
(* that properties are checked of both files and the two can be compared.  *)
(*                                                                         *)
(* Texts, paths and field values are sequences of one-character strings,   *)
(* so that re.search, str.strip, str.lower, str.endswith and               *)
(* os.path.basename are computed character by character.                   *)
(***************************************************************************)
EXTENDS Integers, Sequences, FiniteSets, TLC

VARIABLES
  btn_upload,   \* [variant -> BOOLEAN]  MainWindow.btn_upload.isEnabled()
  log_output,   \* [variant -> Seq(line)] MainWindow.log_output
  pbar,         \* [variant -> 0..100]    MainWindow.pbar.value()
  modal,        \* [variant -> Seq(frame)] handlers blocked in a modal file dialog
  workers,      \* [variant -> Seq(thread)] ProcessingWorker threads alive; last = self.worker
  events,       \* [variant -> Seq(signal)] signals posted to the GUI thread, FIFO
  save_dialogs, \* [variant -> Nat] getSaveFileName calls of the current run
  sheet,        \* [variant -> rows written by to_excel in the current run]
  unhandled,    \* [variant -> BOOLEAN] an exception escaped a slot in the current run
  text,         \* input of parse_fields (logic specification)
  row,          \* result of parse_fields
  file,         \* input of process_file
  extracted,    \* result of process_file, per variant
  step          \* position of the logic specification

appvars == <<btn_upload, log_output, pbar, modal, workers, events,
             save_dialogs, sheet, unhandled>>
logicvars == <<text, row, file, extracted, step>>
vars == <<btn_upload, log_output, pbar, modal, workers, events,
          save_dialogs, sheet, unhandled, text, row, file, extracted, step>>

Variants == {"ticket_app", "ticket_sorter"}

(***************************************************************************)
(* Bounds of the model.                                                    *)
(***************************************************************************)
MaxLines == 2
MaxFiles == 2
BatchA == 50
BatchB == 101
MaxPending == 3

(***************************************************************************)
(* Characters.                                                             *)
(***************************************************************************)
Upper == <<"A","B","C","D","E","F","G","H","I","J","K","L","M","N","O","P","Q","R","S","T","U","V","W","X","Y","Z">>
LowerCase == <<"a","b","c","d","e","f","g","h","i","j","k","l","m","n","o","p","q","r","s","t","u","v","w","x","y","z">>
Digits == {"0","1","2","3","4","5","6","7","8","9"}
\* The characters \s matches and str.strip() removes (the vertical tab, which
\* has no TLA+ escape, is left out).
Whitespace == {" ", "\t", "\n", "\r", "\f"}

\* str.lower() of one character (re.IGNORECASE compares case-folded characters).
lower_char(c) ==
  IF \E i \in 1..Len(Upper) : Upper[i] = c
    THEN LowerCase[CHOOSE i \in 1..Len(Upper) : Upper[i] = c]
    ELSE c

\* str.lower()
lower(s) == [i \in 1..Len(s) |-> lower_char(s[i])]

\* str.endswith(suffix)
endswith(s, suffix) ==
  /\ Len(suffix) <= Len(s)
  /\ SubSeq(s, Len(s) - Len(suffix) + 1, Len(s)) = suffix

\* str.strip(): drop leading and trailing whitespace.
strip(s) ==
  LET keep == {i \in 1..Len(s) : s[i] \notin Whitespace}
  IN  IF keep = {} THEN <<>>
      ELSE SubSeq(s, CHOOSE i \in keep : \A j \in keep : i <= j,
                     CHOOSE i \in keep : \A j \in keep : j <= i)

\* os.path.basename(path): what follows the last "/".
basename(path) ==
  LET slashes == {i \in 1..Len(path) : path[i] = "/"}
  IN  IF slashes = {} THEN path
      ELSE SubSeq(path, (CHOOSE i \in slashes : \A j \in slashes : j <= i) + 1,
                  Len(path))

(***************************************************************************)
(* TicketLogic.parse_fields: the table of patterns, in dictionary order.   *)
(* Every pattern has the shape  label \s* ( class{lo,hi} ) : a literal     *)
(* label, optional whitespace when ws, and one capture group that is a     *)
(* greedy run of one character class.  class "dot" is "." (anything but a  *)
(* newline), "digit" is \d, "digitdot" is [\d\.].  hi = 0 stands for no    *)
(* upper limit ("*" and "+").                                              *)
(***************************************************************************)
patterns == <<
    [field |-> "Ticket_ID", label |-> <<>>,
       ws |-> FALSE, class |-> "digit", lo |-> 9, hi |-> 10],
    [field |-> "Date_Time", label |-> <<"T","i","c","k","e","t"," ","D","a","t","e","/","T","i","m","e",":">>,
       ws |-> TRUE, class |-> "dot", lo |-> 0, hi |-> 0],
    [field |-> "Applicant", label |-> <<"A","p","p","l","i","c","a","n","t",":">>,
       ws |-> TRUE, class |-> "dot", lo |-> 0, hi |-> 0],
    [field |-> "Disaster", label |-> <<"D","i","s","a","s","t","e","r",":">>,
       ws |-> TRUE, class |-> "dot", lo |-> 0, hi |-> 0],
    [field |-> "Program", label |-> <<"P","r","o","g","r","a","m",":">>,
       ws |-> TRUE, class |-> "dot", lo |-> 0, hi |-> 0],
    [field |-> "Contractor", label |-> <<"C","o","n","t","r","a","c","t","o","r",":">>,
       ws |-> TRUE, class |-> "dot", lo |-> 0, hi |-> 0],
    [field |-> "Sub-Contractor", label |-> <<"S","u","b","-","C","o","n","t","r","a","c","t","o","r",":">>,
       ws |-> TRUE, class |-> "dot", lo |-> 0, hi |-> 0],
    [field |-> "Crew", label |-> <<"C","r","e","w",":">>,
       ws |-> TRUE, class |-> "dot", lo |-> 0, hi |-> 0],
    [field |-> "Supervisor", label |-> <<"S","u","p","e","r","v","i","s","o","r",":">>,
       ws |-> TRUE, class |-> "dot", lo |-> 0, hi |-> 0],
    [field |-> "Hazard_Type", label |-> <<"H","a","z","a","r","d"," ","T","y","p","e",":">>,
       ws |-> TRUE, class |-> "dot", lo |-> 0, hi |-> 0],
    [field |-> "GPS", label |-> <<"G","P","S","(","L","a","t",",","L","g","n",")",":">>,
       ws |-> TRUE, class |-> "dot", lo |-> 0, hi |-> 0],
    [field |-> "Address", label |-> <<"A","d","d","r","e","s","s",":">>,
       ws |-> TRUE, class |-> "dot", lo |-> 0, hi |-> 0],
    [field |-> "Measure", label |-> <<"M","e","a","s","u","r","e",":">>,
       ws |-> TRUE, class |-> "digitdot", lo |-> 1, hi |-> 0],
    [field |-> "Unit_Count", label |-> <<"U","n","i","t"," ","C","o","u","n","t",":">>,
       ws |-> TRUE, class |-> "digit", lo |-> 1, hi |-> 0],
    [field |-> "Monitor", label |-> <<"M","o","n","i","t","o","r",":">>,
       ws |-> TRUE, class |-> "dot", lo |-> 0, hi |-> 0] >>

\* The sentinel of a field whose pattern does not match.
NA == <<"N","/","A">>

\* Whether character c belongs to a pattern's character class.
in_class(class, c) ==
  CASE class = "dot" -> c # "\n"
    [] class = "digit" -> c \in Digits
    [] class = "digitdot" -> c \in Digits \cup {"."}

\* The literal label matches at position p, case-insensitively.
label_at(label, s, p) ==
  /\ p + Len(label) - 1 <= Len(s)
  /\ \A i \in 1..Len(label) : lower_char(s[p + i - 1]) = lower_char(label[i])

\* \s*, greedy: the first position from q on that holds no whitespace.
RECURSIVE skip_ws(_, _)
skip_ws(s, q) ==
  IF q <= Len(s) /\ s[q] \in Whitespace THEN skip_ws(s, q + 1) ELSE q

\* class{.,hi}, greedy: the length of the run of class characters from q on,
\* at most hi when hi > 0.
RECURSIVE run_len(_, _, _, _, _)
run_len(class, hi, s, q, n) ==
  IF q + n <= Len(s) /\ in_class(class, s[q + n]) /\ (hi = 0 \/ n < hi)
    THEN run_len(class, hi, s, q, n + 1)
    ELSE n

\* The pattern anchored at position p: its capture group, or no match.
\* Giving whitespace back never helps a pattern of this table: a whitespace
\* character is in no class but ".", and "." has lo = 0.
match_at(pat, s, p) ==
  IF ~label_at(pat.label, s, p) THEN [matched |-> FALSE, group |-> <<>>]
  ELSE LET q == IF pat.ws THEN skip_ws(s, p + Len(pat.label))
                ELSE p + Len(pat.label)
           n == run_len(pat.class, pat.hi, s, q, 0)
       IN  IF n >= pat.lo
             THEN [matched |-> TRUE, group |-> SubSeq(s, q, q + n - 1)]
             ELSE [matched |-> FALSE, group |-> <<>>]

\* re.search(pattern, text, re.IGNORECASE): the match at the leftmost position
\* where the pattern matches, scanning from position p.
RECURSIVE search_from(_, _, _)
search_from(pat, s, p) ==
  IF p > Len(s) + 1 THEN [matched |-> FALSE, group |-> <<>>]
  ELSE LET m == match_at(pat, s, p)
       IN  IF m.matched THEN m ELSE search_from(pat, s, p + 1)

re_search(pat, s) == search_from(pat, s, 1)

\* The loop of parse_fields over patterns.items(), from entry k on.
RECURSIVE parse_loop(_, _, _)
parse_loop(s, k, acc) ==
  IF k > Len(patterns) THEN acc
  ELSE LET match == re_search(patterns[k], s)
           value == IF match.matched THEN strip(match.group) ELSE NA
       IN  parse_loop(s, k + 1,
             [f \in DOMAIN acc \cup {patterns[k].field} |->
                IF f = patterns[k].field THEN value ELSE acc[f]])

\* A mutant of parse_fields: the capture group is stored without .strip().
parse_fields_nostrip(s) ==
  [f \in {patterns[k].field : k \in 1..Len(patterns)} |->
     LET k == CHOOSE k \in 1..Len(patterns) : patterns[k].field = f
         match == re_search(patterns[k], s)
     IN  IF match.matched THEN match.group ELSE NA]

\* TicketLogic.parse_fields(text)
parse_fields(s) == parse_loop(s, 1, <<>>)

(***************************************************************************)
(* The files a user can select.  A file is its path and what the external  *)
(* libraries make of it: kind says which loader accepts it, pages holds,   *)
(* per page image, the outcome of pytesseract.image_to_string on it.       *)
(***************************************************************************)
LineContractor == <<"C","o","n","t","r","a","c","t","o","r",":"," ","A","b","\n">>
LineSubContractor == <<"S","u","b","-","C","o","n","t","r","a","c","t","o","r",":"," ","C","d","\n">>
LineCrewEmpty == <<"C","R","E","W",":","\n">>
LineMeasureBad == <<"M","e","a","s","u","r","e",":"," ","x","\n">>
LineMeasure == <<"m","e","a","s","u","r","e",":","1",".","5","m","\n">>
LineDigits == <<"1","2","3","4","5","6","7","8","9","0","1","\n">>
LineMonitor == <<"M","o","n","i","t","o","r",":"," ","E","f"," ","\r","\n">>
Lines == {LineContractor, LineSubContractor, LineCrewEmpty, LineMeasureBad,
          LineMeasure, LineDigits, LineMonitor}

\* The OCR texts of the logic specification: up to n lines, in any order.
RECURSIVE TextsOf(_)
TextsOf(n) ==
  IF n = 0 THEN {<<>>}
  ELSE LET shorter == TextsOf(n - 1)
       IN  shorter \cup {t \o l : t \in shorter, l \in Lines}

Texts == TextsOf(MaxLines)

TextA == LineDigits \o LineContractor
TextB == LineSubContractor \o LineMonitor

PageOk(t) == [ok |-> TRUE, text |-> t]
PageFail == [ok |-> FALSE, text |-> <<>>]

FileImage ==
  [path |-> <<"d","/","a",".","p","n","g">>, kind |-> "image",
   pages |-> <<PageOk(TextA)>>]
FilePdf ==
  [path |-> <<"d","/","b",".","P","D","F">>, kind |-> "pdf",
   pages |-> <<PageOk(TextB), PageOk(TextA)>>]
FilePdfFail ==
  [path |-> <<"d","/","c",".","p","d","f">>, kind |-> "pdf",
   pages |-> <<PageOk(TextA), PageFail>>]
FileBroken ==
  [path |-> <<"d","/","e",".","j","p","g">>, kind |-> "broken", pages |-> <<>>]
FilePdfPng ==
  [path |-> <<"f",".","p","d","f",".","p","n","g">>, kind |-> "image",
   pages |-> <<PageOk(TextB)>>]
FileEmptyPdf ==
  [path |-> <<"g",".","p","d","f">>, kind |-> "pdf", pages |-> <<>>]
FileImageFail ==
  [path |-> <<"h",".","J","P","G">>, kind |-> "image", pages |-> <<PageFail>>]
FilePdfThree ==
  [path |-> <<"i",".","P","d","f">>, kind |-> "pdf",
   pages |-> <<PageOk(TextA), PageOk(TextA), PageOk(TextB)>>]

\* The files of the application specifications, and those of the logic one.
Files == {FileImage, FilePdf, FilePdfFail}
AllFiles == Files \cup {FileBroken, FilePdfPng, FileEmptyPdf, FileImageFail,
                        FilePdfThree}

DotPdf == <<".","p","d","f">>

\* pdf2image.convert_from_path: one image per page, or an exception.
convert_from_path(f) ==
  IF f.kind = "pdf" THEN [ok |-> TRUE, value |-> f.pages, error |-> ""]
  ELSE [ok |-> FALSE, value |-> <<>>, error |-> "PDFPageCountError"]

\* PIL.Image.open: the image, or an exception.
Image_open(f) ==
  IF f.kind = "image" THEN [ok |-> TRUE, value |-> f.pages[1], error |-> ""]
  ELSE [ok |-> FALSE, value |-> PageFail, error |-> "UnidentifiedImageError"]

\* pytesseract.image_to_string: the text of the image, or an exception.
image_to_string(img) ==
  IF img.ok THEN [ok |-> TRUE, value |-> img.text, error |-> ""]
  ELSE [ok |-> FALSE, value |-> <<>>, error |-> "TesseractError"]

\* parse_fields of a page text.  The rows of the two page texts of Files are
\* computed once and looked up; any other text is parsed on the spot.
PageRows == [t \in {TextA, TextB} |-> parse_fields(t)]
parsed_page(t) == IF t \in DOMAIN PageRows THEN PageRows[t] ELSE parse_fields(t)

\* An exception e leaving process_file: ticket_app.py wraps it, ticket_sorter.py
\* has no handler and lets it through.
process_file_raise(v, e) ==
  [ok |-> FALSE, rows |-> <<>>,
   error |-> IF v = "ticket_app" THEN <<"OCR Error: ", e>> ELSE <<e>>]

\* A mutant of process_file_loop: each row is put in front of the list.
RECURSIVE process_file_loop_front(_, _, _, _)
process_file_loop_front(v, images, k, extracted_data) ==
  IF k > Len(images) THEN [ok |-> TRUE, rows |-> extracted_data, error |-> <<>>]
  ELSE LET text_block == image_to_string(images[k])
       IN  IF ~text_block.ok THEN process_file_raise(v, text_block.error)
           ELSE process_file_loop_front(v, images, k + 1,
                  <<parsed_page(text_block.value)>> \o extracted_data)

\* A mutant of process_file_loop: the handler of ticket_app.py returns the
\* rows read so far instead of raising.
RECURSIVE process_file_loop_partial(_, _, _, _)
process_file_loop_partial(v, images, k, extracted_data) ==
  IF k > Len(images) THEN [ok |-> TRUE, rows |-> extracted_data, error |-> <<>>]
  ELSE LET text_block == image_to_string(images[k])
       IN  IF ~text_block.ok
             THEN IF v = "ticket_app"
                    THEN [ok |-> TRUE, rows |-> extracted_data, error |-> <<>>]
                    ELSE process_file_raise(v, text_block.error)
             ELSE process_file_loop_partial(v, images, k + 1,
                    Append(extracted_data, parsed_page(text_block.value)))

\* The loop over images, from image k on.
RECURSIVE process_file_loop(_, _, _, _)
process_file_loop(v, images, k, extracted_data) ==
  IF k > Len(images) THEN [ok |-> TRUE, rows |-> extracted_data, error |-> <<>>]
  ELSE LET text_block == image_to_string(images[k])
       IN  IF ~text_block.ok THEN process_file_raise(v, text_block.error)
           ELSE process_file_loop(v, images, k + 1,
                  Append(extracted_data, parsed_page(text_block.value)))

\* Whether process_file takes the PDF branch.
is_pdf(file_path) == endswith(lower(file_path), DotPdf)

\* TicketLogic.process_file(file_path): the rows, or the exception raised.
process_file(v, f) ==
  IF is_pdf(f.path)
    THEN LET images == convert_from_path(f)
         IN  IF ~images.ok THEN process_file_raise(v, images.error)
             ELSE process_file_loop(v, images.value, 1, <<>>)
    ELSE LET image == Image_open(f)
         IN  IF ~image.ok THEN process_file_raise(v, image.error)
             ELSE process_file_loop(v, <<image.value>>, 1, <<>>)

\* process_file of the files of the specifications, computed once and looked up.
FileResults == [v \in Variants |-> [f \in AllFiles |-> process_file(v, f)]]
process_file_of(v, f) ==
  IF f \in AllFiles THEN FileResults[v][f] ELSE process_file(v, f)

(***************************************************************************)
(* prog_val = int(((i + 1) / len(self.file_paths)) * 100).                 *)
(* "/" is Python's true division and "*" a float product: both round to    *)
(* the nearest IEEE-754 double (53-bit significand, ties to even), and     *)
(* int() truncates.  A significand is kept as <<top, a1, a2, a3, a4>>:     *)
(* four limbs of 13 bits below a top part, standing for the integer        *)
(* top * 2^52 + a1 * 2^39 + a2 * 2^26 + a3 * 2^13 + a4, so that every      *)
(* intermediate value fits a machine integer (for fewer than 2^17 files).  *)
(***************************************************************************)
Limb == 2^13

\* The shift that brings k * 2^sh into [n, 2n), for 0 < k <= n.
RECURSIVE norm_shift(_, _, _)
norm_shift(k, n, sh) == IF k >= n THEN sh ELSE norm_shift(2 * k, n, sh + 1)

\* Long division: the next count limbs of r / n (r < n), then the remainder.
RECURSIVE div_limbs(_, _, _, _)
div_limbs(r, n, count, acc) ==
  IF count = 0 THEN [limbs |-> acc, rem |-> r]
  ELSE div_limbs((r * Limb) % n, n, count - 1, Append(acc, (r * Limb) \div n))

\* sig + unit at limb position pos, the carry running up into the top part.
RECURSIVE limbs_add(_, _, _)
limbs_add(sig, pos, unit) ==
  IF pos = 1 THEN [sig EXCEPT ![1] = @ + unit]
  ELSE IF sig[pos] + unit < Limb THEN [sig EXCEPT ![pos] = @ + unit]
       ELSE limbs_add([sig EXCEPT ![pos] = @ + unit - Limb], pos - 1, 1)

\* The number of bits of a positive integer.
RECURSIVE bit_length(_)
bit_length(x) == IF x = 0 THEN 0 ELSE 1 + bit_length(x \div 2)

\* Round sig to the 53 bits below and including the leading bit of its top
\* part, ties to even; sticky says that non-zero bits follow below sig.  The
\* bits dropped are the lowest bit_length(top) - 1 bits of the last limb.
round_double(sig, sticky) ==
  LET drop == bit_length(sig[1]) - 1
      unit == 2^drop
      dropped == sig[5] % unit
      kept == [sig EXCEPT ![5] = @ - dropped]
      odd == (sig[5] \div unit) % 2 = 1
      up == IF drop = 0 THEN FALSE
            ELSE \/ 2 * dropped > unit
                 \/ 2 * dropped = unit /\ (sticky \/ odd)
  IN  IF up THEN limbs_add(kept, 5, unit) ELSE kept

\* k / n as a double, for integers 0 < k <= n: the value is sig * 2^(-52 - sh).
\* The quotient is developed to 52 bits below the leading one; the remainder
\* decides the rounding (above, at or below one half of the last place).
true_div(k, n) ==
  LET sh == norm_shift(k, n, 0)
      q == div_limbs(k * 2^sh - n, n, 4, <<1>>)
      up == \/ 2 * q.rem > n
            \/ 2 * q.rem = n /\ q.limbs[5] % 2 = 1
  IN  [sh |-> sh, sig |-> IF up THEN limbs_add(q.limbs, 5, 1) ELSE q.limbs]

\* sig * m for a small integer m, limb by limb from the lowest, carries upward.
limbs_mul(sig, m) ==
  LET t5 == sig[5] * m
      t4 == sig[4] * m + t5 \div Limb
      t3 == sig[3] * m + t4 \div Limb
      t2 == sig[2] * m + t3 \div Limb
      t1 == sig[1] * m + t2 \div Limb
  IN  <<t1, t2 % Limb, t3 % Limb, t4 % Limb, t5 % Limb>>

\* x * m as a double: the exact product, rounded.
float_mul(x, m) == [sh |-> x.sh, sig |-> round_double(limbs_mul(x.sig, m), FALSE)]

\* int(x) for a double x >= 0: the part of sig * 2^(-52 - sh) above the point.
float_int(x) == x.sig[1] \div (2^x.sh)

\* A mutant of prog_val: the percentage of the files before the current one.
prog_val_before(i, n) == (100 * i) \div n

\* prog_val of the file at index i (from 0) of n files.
prog_val(i, n) == float_int(float_mul(true_div(i + 1, n), 100))

\* prog_val for the list lengths of the specifications, computed once and
\* looked up.
ProgVals ==
  [n \in (1..MaxFiles) \cup {BatchA, BatchB} |-> [k \in 1..n |-> prog_val(k - 1, n)]]
prog_val_of(i, n) == IF n \in DOMAIN ProgVals THEN ProgVals[n][i + 1] ELSE prog_val(i, n)
(***************************************************************************)
(* ProcessingWorker: a thread is its file list, the loop index i, the      *)
(* rows accumulated, its position in run() and the signals it has emitted. *)
(* run() is cut at its signal emissions: "status" emits the Processing     *)
(* line, "process" calls process_file (and emits the Error line),          *)
(* "progress" emits prog_val, "finished" emits the result list.            *)
(***************************************************************************)
Signal(sig, arg) == [sig |-> sig, arg |-> arg]

\* ProcessingWorker.__init__ and QThread.start
ProcessingWorker(file_paths) ==
  [file_paths |-> file_paths, i |-> 0, all_results |-> <<>>,
   pc |-> IF file_paths = <<>> THEN "finished" ELSE "status",
   emitted |-> <<>>]

\* A mutant of run_step: rows already in the list are not added again.
RECURSIVE extend_new(_, _)
extend_new(all_results, data_list) ==
  IF data_list = <<>> THEN all_results
  ELSE extend_new(
         IF \E k \in 1..Len(all_results) : all_results[k] = data_list[1]
           THEN all_results ELSE Append(all_results, data_list[1]),
         Tail(data_list))

run_step_dedup(v, w) ==
  LET n == Len(w.file_paths)
      f == w.file_paths[w.i + 1]
      filename == basename(f.path)
  IN  CASE w.pc = "status" ->
             [w |-> [w EXCEPT !.pc = "process"],
              out |-> <<Signal("status", <<"Processing", w.i + 1, n, filename>>)>>]
        [] w.pc = "process" ->
             LET data_list == process_file_of(v, f)
             IN  IF data_list.ok
                   THEN [w |-> [w EXCEPT !.pc = "progress",
                                  !.all_results = extend_new(@, data_list.rows)],
                         out |-> <<>>]
                   ELSE [w |-> [w EXCEPT !.pc = "progress"],
                         out |-> <<Signal("status",
                                     <<"Error in", filename, data_list.error>>)>>]
        [] w.pc = "progress" ->
             [w |-> [w EXCEPT !.i = @ + 1,
                              !.pc = IF w.i + 1 < n THEN "status" ELSE "finished"],
              out |-> <<Signal("progress", prog_val_of(w.i, n))>>]
        [] w.pc = "finished" ->
             [w |-> [w EXCEPT !.pc = "done"],
              out |-> <<Signal("finished", w.all_results)>>]

\* A mutant of run_step: a failing file ends the loop.
run_step_abort(v, w) ==
  LET n == Len(w.file_paths)
      f == w.file_paths[w.i + 1]
      filename == basename(f.path)
  IN  CASE w.pc = "status" ->
             [w |-> [w EXCEPT !.pc = "process"],
              out |-> <<Signal("status", <<"Processing", w.i + 1, n, filename>>)>>]
        [] w.pc = "process" ->
             LET data_list == process_file_of(v, f)
             IN  IF data_list.ok
                   THEN [w |-> [w EXCEPT !.pc = "progress",
                                  !.all_results = @ \o data_list.rows],
                         out |-> <<>>]
                   ELSE [w |-> [w EXCEPT !.pc = "finished"],
                         out |-> <<Signal("status",
                                     <<"Error in", filename, data_list.error>>)>>]
        [] w.pc = "progress" ->
             [w |-> [w EXCEPT !.i = @ + 1,
                              !.pc = IF w.i + 1 < n THEN "status" ELSE "finished"],
              out |-> <<Signal("progress", prog_val_of(w.i, n))>>]
        [] w.pc = "finished" ->
             [w |-> [w EXCEPT !.pc = "done"],
              out |-> <<Signal("finished", w.all_results)>>]

\* One step of ProcessingWorker.run of variant v in thread w: the thread
\* after it and the signals it emits.
run_step(v, w) ==
  LET n == Len(w.file_paths)
      f == w.file_paths[w.i + 1]
      filename == basename(f.path)
  IN  CASE w.pc = "status" ->
             [w |-> [w EXCEPT !.pc = "process"],
              out |-> <<Signal("status", <<"Processing", w.i + 1, n, filename>>)>>]
        [] w.pc = "process" ->
             LET data_list == process_file_of(v, f)
             IN  IF data_list.ok
                   THEN [w |-> [w EXCEPT !.pc = "progress",
                                  !.all_results = @ \o data_list.rows],
                         out |-> <<>>]
                   ELSE [w |-> [w EXCEPT !.pc = "progress"],
                         out |-> <<Signal("status",
                                     <<"Error in", filename, data_list.error>>)>>]
        [] w.pc = "progress" ->
             [w |-> [w EXCEPT !.i = @ + 1,
                              !.pc = IF w.i + 1 < n THEN "status" ELSE "finished"],
              out |-> <<Signal("progress", prog_val_of(w.i, n))>>]
        [] w.pc = "finished" ->
             [w |-> [w EXCEPT !.pc = "done"],
              out |-> <<Signal("finished", w.all_results)>>]

(***************************************************************************)
(* MainWindow.  The state of one variant is the record Cur(v); a handler   *)
(* is an operator from that record to the record after it.  A handler that *)
(* calls a modal file dialog is cut there: the dialog runs a nested event  *)
(* loop, in which queued signals are still delivered, and the handler goes *)
(* on when the user closes the dialog.  modal is the stack of the handlers *)
(* waiting in a dialog; only the top one takes user input.                 *)
(***************************************************************************)
Cur(v) ==
  [btn_upload |-> btn_upload[v], log_output |-> log_output[v], pbar |-> pbar[v],
   modal |-> modal[v], workers |-> workers[v], events |-> events[v],
   save_dialogs |-> save_dialogs[v], sheet |-> sheet[v],
   unhandled |-> unhandled[v]]

\* No spreadsheet written.
NoSheet == <<>>

\* MainWindow.__init__
MainWindow ==
  [btn_upload |-> TRUE, log_output |-> <<>>, pbar |-> 0, modal |-> <<>>,
   workers |-> <<>>, events |-> <<>>, save_dialogs |-> 0, sheet |-> NoSheet,
   unhandled |-> FALSE]

\* The handler on top of the modal stack, "" when no dialog is open.
top_dialog(s) == IF s.modal = <<>> THEN "" ELSE s.modal[Len(s.modal)].dialog

\* The upload button takes a click: it is enabled and no modal dialog is open.
can_click(s) == s.btn_upload /\ s.modal = <<>>

\* handle_upload up to QFileDialog.getOpenFileNames.
handle_upload_dialog(s) ==
  [s EXCEPT !.modal = Append(@, [dialog |-> "getOpenFileNames", df |-> <<>>])]

\* Threads still running when self.worker is replaced stay alive.
running(ws) == SelectSeq(ws, LAMBDA w : w.pc # "done")

\* A mutant of handle_upload: the button is left enabled.
handle_upload_enabled(s, files) ==
  LET closed == [s EXCEPT !.modal = SubSeq(@, 1, Len(@) - 1)]
  IN  IF files # <<>>
        THEN [closed EXCEPT !.log_output = <<>>,
                            !.pbar = 0,
                            !.workers = Append(running(@), ProcessingWorker(files)),
                            !.save_dialogs = 0,
                            !.sheet = NoSheet,
                            !.unhandled = FALSE]
        ELSE closed

\* handle_upload from the return of getOpenFileNames: files is the selection,
\* empty when the dialog was cancelled.  save_dialogs, sheet and unhandled
\* observe the current run and start afresh with it.
handle_upload(s, files) ==
  LET closed == [s EXCEPT !.modal = SubSeq(@, 1, Len(@) - 1)]
  IN  IF files # <<>>
        THEN [closed EXCEPT !.btn_upload = FALSE,
                            !.log_output = <<>>,
                            !.pbar = 0,
                            !.workers = Append(running(@), ProcessingWorker(files)),
                            !.save_dialogs = 0,
                            !.sheet = NoSheet,
                            !.unhandled = FALSE]
        ELSE closed

\* The slot of worker.status: lambda s: self.log_output.append(s)
status_slot(s) ==
  [s EXCEPT !.log_output = Append(@, Head(s.events).arg), !.events = Tail(@)]

\* The slot of worker.progress: self.pbar.setValue
progress_slot(s) ==
  [s EXCEPT !.pbar = Head(s.events).arg, !.events = Tail(@)]

\* pd.DataFrame(results): the columns are the keys of the rows in dictionary
\* order, the data one tuple of values per row.
DataFrame(results) ==
  LET columns == SelectSeq([k \in 1..Len(patterns) |-> patterns[k].field],
                           LAMBDA c : \E r \in 1..Len(results) : c \in DOMAIN results[r])
  IN  [columns |-> columns,
       data |-> [r \in 1..Len(results) |->
                   [c \in 1..Len(columns) |->
                      IF columns[c] \in DOMAIN results[r]
                        THEN results[r][columns[c]] ELSE <<"n","a","n">>]]]

\* df.to_excel(save_path, index=False): a header line, then the data.
to_excel(df) == <<df.columns>> \o df.data

\* The log lines of handle_finished, which differ between the variants.
msg_failed(v) ==
  IF v = "ticket_app" THEN "Extraction failed or no data found."
  ELSE "Extraction failed."
msg_success(v) ==
  IF v = "ticket_app" THEN "SUCCESS! File saved to:" ELSE "SUCCESS! Saved to:"

\* A mutant of handle_finished: the button is re-enabled only after the rows
\* were found non-empty.
handle_finished_late(v, s) ==
  LET results == Head(s.events).arg
      s1 == [s EXCEPT !.events = Tail(@)]
  IN  IF results = <<>>
        THEN [s1 EXCEPT !.log_output = Append(@, <<"failed", msg_failed(v)>>)]
        ELSE [s1 EXCEPT !.btn_upload = TRUE,
                        !.save_dialogs = @ + 1,
                        !.modal = Append(@, [dialog |-> "getSaveFileName",
                                             df |-> DataFrame(results)])]

\* handle_finished(results) up to QFileDialog.getSaveFileName.
handle_finished(v, s) ==
  LET results == Head(s.events).arg
      s1 == [s EXCEPT !.events = Tail(@), !.btn_upload = TRUE]
  IN  IF results = <<>>
        THEN [s1 EXCEPT !.log_output = Append(@, <<"failed", msg_failed(v)>>)]
        ELSE [s1 EXCEPT !.save_dialogs = @ + 1,
                        !.modal = Append(@, [dialog |-> "getSaveFileName",
                                             df |-> DataFrame(results)])]

\* A mutant of handle_finished_save: the sheet is written without asking
\* whether a path was chosen.
handle_finished_save_always(v, s, save_path, excel_ok) ==
  LET df == s.modal[Len(s.modal)].df
      closed == [s EXCEPT !.modal = SubSeq(@, 1, Len(@) - 1)]
  IN  [closed EXCEPT !.sheet = to_excel(df),
                     !.log_output = Append(@, <<"success", msg_success(v), save_path>>)]

\* handle_finished from the return of getSaveFileName: save_path is the path
\* chosen, empty when the dialog was cancelled; excel_ok is whether
\* df.to_excel succeeds.  ticket_app.py catches and logs its exception,
\* ticket_sorter.py lets it leave the slot.
handle_finished_save(v, s, save_path, excel_ok) ==
  LET df == s.modal[Len(s.modal)].df
      closed == [s EXCEPT !.modal = SubSeq(@, 1, Len(@) - 1)]
  IN  IF save_path = <<>> THEN closed
      ELSE IF excel_ok
        THEN [closed EXCEPT !.sheet = to_excel(df),
                            !.log_output = Append(@, <<"success", msg_success(v), save_path>>)]
        ELSE IF v = "ticket_app"
          THEN [closed EXCEPT !.log_output = Append(@, <<"error", "Error saving Excel:">>)]
          ELSE [closed EXCEPT !.unhandled = TRUE]

(***************************************************************************)
(* Actions.  Each drives both variants: the variants for which the step is *)
(* enabled take it, with the same input.                                   *)
(***************************************************************************)
Install(nxt) ==
  /\ btn_upload' = [v \in Variants |-> nxt[v].btn_upload]
  /\ log_output' = [v \in Variants |-> nxt[v].log_output]
  /\ pbar' = [v \in Variants |-> nxt[v].pbar]
  /\ modal' = [v \in Variants |-> nxt[v].modal]
  /\ workers' = [v \in Variants |-> nxt[v].workers]
  /\ events' = [v \in Variants |-> nxt[v].events]
  /\ save_dialogs' = [v \in Variants |-> nxt[v].save_dialogs]
  /\ sheet' = [v \in Variants |-> nxt[v].sheet]
  /\ unhandled' = [v \in Variants |-> nxt[v].unhandled]
  /\ UNCHANGED logicvars

Drive(En(_), Op(_)) ==
  /\ \E v \in Variants : En(v)
  /\ Install([v \in Variants |-> IF En(v) THEN Op(v) ELSE Cur(v)])

\* The thread at index j of variant v takes one step of run(): its signals are
\* recorded in the thread and posted to the GUI thread's event queue.
thread_step(v, s, j) ==
  LET r == run_step(v, s.workers[j])
  IN  [s EXCEPT !.workers[j] = [r.w EXCEPT !.emitted = @ \o r.out],
                !.events = @ \o r.out]

head_is(s, sig) == s.events # <<>> /\ Head(s.events).sig = sig

\* The path the user gives the save dialog.
SavePath == <<"o",".","x","l","s","x">>

\* The user clicks the upload button.
ClickUpload ==
  /\ Drive(LAMBDA v : can_click(Cur(v)), LAMBDA v : handle_upload_dialog(Cur(v)))

\* The user confirms the open dialog with a selection.
ChooseFiles(files) ==
  /\ files # <<>>
  /\ Drive(LAMBDA v : top_dialog(Cur(v)) = "getOpenFileNames",
           LAMBDA v : handle_upload(Cur(v), files))

\* The user cancels the open dialog.
CancelFiles ==
  /\ Drive(LAMBDA v : top_dialog(Cur(v)) = "getOpenFileNames",
           LAMBDA v : handle_upload(Cur(v), <<>>))

\* A worker thread runs one step.
WorkerStep(j) ==
  /\ Drive(LAMBDA v : j <= Len(workers[v]) /\ workers[v][j].pc # "done",
           LAMBDA v : thread_step(v, Cur(v), j))

\* The same, for the batches: the worker runs at most MaxPending signals ahead
\* of the event loop.
WorkerStepPaced(j) ==
  /\ \A v \in Variants : Len(events[v]) <= MaxPending
  /\ WorkerStep(j)

\* The event loop delivers the signal at the head of the queue.
DeliverStatus ==
  /\ Drive(LAMBDA v : head_is(Cur(v), "status"), LAMBDA v : status_slot(Cur(v)))

DeliverProgress ==
  /\ Drive(LAMBDA v : head_is(Cur(v), "progress"), LAMBDA v : progress_slot(Cur(v)))

HandleFinished ==
  /\ Drive(LAMBDA v : head_is(Cur(v), "finished"), LAMBDA v : handle_finished(v, Cur(v)))

\* The user confirms the save dialog; writing the file succeeds or fails.
SaveFile(excel_ok) ==
  /\ Drive(LAMBDA v : top_dialog(Cur(v)) = "getSaveFileName",
           LAMBDA v : handle_finished_save(v, Cur(v), SavePath, excel_ok))

\* The user cancels the save dialog.
CancelSave ==
  /\ Drive(LAMBDA v : top_dialog(Cur(v)) = "getSaveFileName",
           LAMBDA v : handle_finished_save(v, Cur(v), <<>>, TRUE))

\* The selections of the application specification: 1..n files, in any order.
RECURSIVE ListsOf(_)
ListsOf(n) ==
  IF n = 0 THEN {<<>>}
  ELSE LET shorter == ListsOf(n - 1)
       IN  shorter \cup {Append(l, f) : l \in shorter, f \in Files}

FileLists == ListsOf(MaxFiles) \ {<<>>}

\* A batch of n files: one that is read, then files that fail.
Batch(n) == [k \in 1..n |-> IF k = 1 THEN FileImage ELSE FilePdfFail]

BatchLists == {Batch(BatchA), Batch(BatchB)}

ThreadIds == 1..2

AppInit ==
  /\ btn_upload = [v \in Variants |-> MainWindow.btn_upload]
  /\ log_output = [v \in Variants |-> MainWindow.log_output]
  /\ pbar = [v \in Variants |-> MainWindow.pbar]
  /\ modal = [v \in Variants |-> MainWindow.modal]
  /\ workers = [v \in Variants |-> MainWindow.workers]
  /\ events = [v \in Variants |-> MainWindow.events]
  /\ save_dialogs = [v \in Variants |-> MainWindow.save_dialogs]
  /\ sheet = [v \in Variants |-> MainWindow.sheet]
  /\ unhandled = [v \in Variants |-> MainWindow.unhandled]

(***************************************************************************)
(* The logic specification: parse_fields and process_file applied to       *)
(* inputs drawn from Texts and AllFiles.                                   *)
(***************************************************************************)
NoFile == [path |-> <<>>, kind |-> "none", pages |-> <<>>]
NoResult == [ok |-> FALSE, rows |-> <<>>, error |-> <<"not run">>]

LogicIdle ==
  /\ text = <<>>
  /\ row = <<>>
  /\ file = NoFile
  /\ extracted = [v \in Variants |-> NoResult]
  /\ step = "idle"

LogicInit ==
  /\ AppInit
  /\ row = <<>>
  /\ extracted = [v \in Variants |-> NoResult]
  /\ \/ step = "text" /\ text \in Texts /\ file = NoFile
     \/ step = "file" /\ file \in AllFiles /\ text = <<>>

ParseFields ==
  /\ step = "text"
  /\ row' = parse_fields(text)
  /\ step' = "parsed"
  /\ UNCHANGED <<text, file, extracted>>
  /\ UNCHANGED appvars

ProcessFile ==
  /\ step = "file"
  /\ extracted' = [v \in Variants |-> process_file(v, file)]
  /\ step' = "processed"
  /\ UNCHANGED <<text, file, row>>
  /\ UNCHANGED appvars

Init == AppInit /\ LogicIdle

Next ==
  \/ ClickUpload
  \/ \E files \in FileLists : ChooseFiles(files)
  \/ CancelFiles
  \/ \E j \in ThreadIds : WorkerStep(j)
  \/ DeliverStatus
  \/ DeliverProgress
  \/ HandleFinished
  \/ \E excel_ok \in BOOLEAN : SaveFile(excel_ok)
  \/ CancelSave

\* The application, with selections of up to MaxFiles files.
Spec == Init /\ [][Next]_vars

NextBatch ==
  \/ ClickUpload
  \/ \E files \in FileLists \cup BatchLists : ChooseFiles(files)
  \/ CancelFiles
  \/ \E j \in ThreadIds : WorkerStepPaced(j)
  \/ DeliverStatus
  \/ DeliverProgress
  \/ HandleFinished
  \/ \E excel_ok \in BOOLEAN : SaveFile(excel_ok)
  \/ CancelSave

\* The application, with batches of BatchA and BatchB files as well.
SpecProgress == Init /\ [][NextBatch]_vars

\* The worker thread is scheduled and the event loop delivers queued signals.
Fairness ==
  /\ WF_vars(\E j \in ThreadIds : WorkerStep(j))
  /\ WF_vars(DeliverStatus)
  /\ WF_vars(DeliverProgress)
  /\ WF_vars(HandleFinished)

FairSpec == Init /\ [][Next]_vars /\ Fairness

NextLogic == ParseFields \/ ProcessFile

\* parse_fields and process_file on inputs drawn from Texts and AllFiles.
SpecLogic == LogicInit /\ [][NextLogic]_vars

(***************************************************************************)
(* Properties.                                                             *)
(***************************************************************************)
\* The signals of one kind in a thread's emissions, in order.
Emitted(w, sig) == SelectSeq(w.emitted, LAMBDA e : e.sig = sig)

\* The arguments of a sequence of signals.
Args(signals) == [k \in 1..Len(signals) |-> signals[k].arg]

\* The rows a file list is to produce: the rows of the files that are
\* processed without an exception, file after file.
RECURSIVE RowsOf(_, _)
RowsOf(v, files) ==
  IF files = <<>> THEN <<>>
  ELSE LET first == process_file_of(v, Head(files))
       IN  (IF first.ok THEN first.rows ELSE <<>>) \o RowsOf(v, Tail(files))

\* The status lines a file list is to produce up to and including file k.
RECURSIVE StatusOf(_, _, _)
StatusOf(v, files, k) ==
  IF k = 0 THEN <<>>
  ELSE LET res == process_file_of(v, files[k])
           name == basename(files[k].path)
       IN  StatusOf(v, files, k - 1)
             \o <<Signal("status", <<"Processing", k, Len(files), name>>)>>
             \o (IF res.ok THEN <<>>
                 ELSE <<Signal("status", <<"Error in", name, res.error>>)>>)

\* The threads of variant v.
Threads(v) == {workers[v][j] : j \in 1..Len(workers[v])}

(***************************************************************************)
(* C1.  parse_fields returns a row whose keys are exactly the 15 field     *)
(* names; each value is the stripped first capture group of the leftmost   *)
(* match of the field's pattern, or "N/A" when the pattern matches nowhere.*)
(***************************************************************************)
FieldNames ==
  {"Ticket_ID", "Date_Time", "Applicant", "Disaster", "Program", "Contractor",
   "Sub-Contractor", "Crew", "Supervisor", "Hazard_Type", "GPS", "Address",
   "Measure", "Unit_Count", "Monitor"}

\* value is group without its leading and trailing whitespace.
IsStripped(value, group) ==
  /\ value # <<>> => value[1] \notin Whitespace /\ value[Len(value)] \notin Whitespace
  /\ \E a \in 0..Len(group) :
       /\ a + Len(value) <= Len(group)
       /\ SubSeq(group, a + 1, a + Len(value)) = value
       /\ \A i \in 1..Len(group) :
            (i <= a \/ i > a + Len(value)) => group[i] \in Whitespace

C1_RowOfFirstMatches ==
  step = "parsed" =>
    /\ DOMAIN row = FieldNames
    /\ Len(patterns) = Cardinality(FieldNames)
    /\ \A k \in 1..Len(patterns) :
         LET pat == patterns[k]
             at == {p \in 1..Len(text) + 1 : match_at(pat, text, p).matched}
         IN  /\ pat.field \in FieldNames
             /\ IF at = {} THEN row[pat.field] = NA
                ELSE LET p == CHOOSE p \in at : \A q \in at : p <= q
                     IN  IsStripped(row[pat.field], match_at(pat, text, p).group)

C1_Witness ==
  /\ step = "parsed"
  /\ text = LineMonitor \o LineDigits
  /\ row["Monitor"] = <<"E","f">>
  /\ row["Ticket_ID"] = <<"1","2","3","4","5","6","7","8","9","0">>
  /\ row["Crew"] = NA

(***************************************************************************)
(* C10.  The Contractor field is the value of the line that starts with    *)
(* the label "Contractor:", and "N/A" when the text has no such line.      *)
(***************************************************************************)
\* The lines of a text, each without its newline.
RECURSIVE SplitLines(_, _)
SplitLines(s, line) ==
  IF s = <<>> THEN (IF line = <<>> THEN <<>> ELSE <<line>>)
  ELSE IF Head(s) = "\n" THEN <<line>> \o SplitLines(Tail(s), <<>>)
       ELSE SplitLines(Tail(s), Append(line, Head(s)))

ContractorLabel == <<"c","o","n","t","r","a","c","t","o","r",":">>

\* The value a text gives after a label at the start of one of its lines.
OwnLineValue(s, label) ==
  LET lines == SplitLines(s, <<>>)
      own == {k \in 1..Len(lines) :
                /\ Len(lines[k]) >= Len(label)
                /\ lower(SubSeq(lines[k], 1, Len(label))) = label}
  IN  IF own = {} THEN NA
      ELSE LET k == CHOOSE k \in own : \A j \in own : k <= j
           IN  strip(SubSeq(lines[k], Len(label) + 1, Len(lines[k])))

C10_ContractorFromOwnLine ==
  step = "parsed" => row["Contractor"] = OwnLineValue(text, ContractorLabel)

(***************************************************************************)
(* C3.  process_file, when it succeeds, returns one row per page in page   *)
(* order: one row for a path that does not end in ".pdf" (in any case),    *)
(* and for a PDF of n pages n rows, the k-th parse_fields of page k's text.*)
(***************************************************************************)
EndsInPdf(path) ==
  LET n == Len(path)
  IN  /\ n >= 4
      /\ path[n - 3] = "."
      /\ path[n - 2] \in {"p", "P"}
      /\ path[n - 1] \in {"d", "D"}
      /\ path[n] \in {"f", "F"}

C3_OneRowPerPage ==
  step = "processed" =>
    \A v \in Variants :
      extracted[v].ok =>
        LET rows == extracted[v].rows
        IN  /\ Len(rows) = IF EndsInPdf(file.path) THEN Len(file.pages) ELSE 1
            /\ \A k \in 1..Len(rows) :
                 /\ file.pages[k].ok
                 /\ rows[k] = parse_fields(file.pages[k].text)

C3_Witness ==
  /\ step = "processed"
  /\ file = FilePdfThree
  /\ \A v \in Variants :
       /\ extracted[v].ok
       /\ Len(extracted[v].rows) = 3
       /\ extracted[v].rows[1] # extracted[v].rows[3]

(***************************************************************************)
(* C2.  The list a finished worker hands to the finished signal is the     *)
(* concatenation, in selection order, of the rows of the files that were   *)
(* processed without an exception; nothing is dropped, merged or moved.    *)
(***************************************************************************)
C2_FinishedRowsInOrder ==
  \A v \in Variants : \A w \in Threads(v) :
    w.pc = "done" =>
      /\ Len(Emitted(w, "finished")) = 1
      /\ Emitted(w, "finished")[1].arg = RowsOf(v, w.file_paths)

C2_Witness ==
  \E v \in Variants : \E w \in Threads(v) :
    /\ w.pc = "done"
    /\ w.file_paths = <<FilePdf, FileImage>>
    /\ LET rows == Emitted(w, "finished")[1].arg
       IN  Len(rows) = 3 /\ rows[2] = rows[3] /\ rows[1] # rows[2]

(***************************************************************************)
(* C4.  A file whose processing raises is logged with exactly one          *)
(* "Error in <filename>" line right after its "Processing" line, adds no   *)
(* row (not even those of its pages read before the failure), leaves the   *)
(* rows of the earlier files as they were, and the files after it are      *)
(* processed all the same.                                                 *)
(***************************************************************************)
C4_ErrorPerFile ==
  \A v \in Variants : \A w \in Threads(v) :
    /\ w.pc \in {"status", "finished", "done"} =>
         /\ Emitted(w, "status") = StatusOf(v, w.file_paths, w.i)
         /\ w.all_results = RowsOf(v, SubSeq(w.file_paths, 1, w.i))
    /\ w.pc \in {"finished", "done"} => w.i = Len(w.file_paths)

C4_Witness ==
  \E v \in Variants : \E w \in Threads(v) :
    /\ w.pc = "done"
    /\ w.file_paths = <<FilePdfFail, FileImage>>
    /\ Len(SelectSeq(Emitted(w, "status"), LAMBDA e : e.arg[1] = "Error in")) = 1
    /\ Len(SelectSeq(Emitted(w, "status"), LAMBDA e : e.arg[1] = "Processing")) = 2
    /\ Len(w.all_results) = 1

(***************************************************************************)
(* C6.  The worker emits one progress value per file, read or failed.      *)
(* As claimed: the value after the k-th of n files is floor(100*k/n), the  *)
(* values never decrease, lie in 1..100 and end with 100.                  *)
(***************************************************************************)
Progress(w) == Args(Emitted(w, "progress"))

C6_ProgressIsFloorPercent ==
  \A v \in Variants : \A w \in Threads(v) :
    LET n == Len(w.file_paths)
        P == Progress(w)
    IN  /\ Len(P) = w.i
        /\ \A k \in 1..Len(P) :
             /\ P[k] = (100 * k) \div n
             /\ P[k] \in 1..100
             /\ k > 1 => P[k - 1] <= P[k]
        /\ w.pc \in {"finished", "done"} => Len(P) = n /\ P[n] = 100

(***************************************************************************)
(* C6, amended.  One progress value per file; the value after the k-th of  *)
(* n files is floor(100*k/n), or one less than it when 100*k/n is a whole  *)
(* number; the values never decrease, lie in 0..100 and end with 100.      *)
(***************************************************************************)
C6_ProgressIsFloatPercent ==
  \A v \in Variants : \A w \in Threads(v) :
    LET n == Len(w.file_paths)
        P == Progress(w)
    IN  /\ Len(P) = w.i
        /\ \A k \in 1..Len(P) :
             /\ (100 * k) % n # 0 => P[k] = (100 * k) \div n
             /\ (100 * k) % n = 0 => P[k] \in {(100 * k) \div n - 1, (100 * k) \div n}
             /\ P[k] \in 0..100
             /\ k > 1 => P[k - 1] <= P[k]
        /\ w.pc \in {"finished", "done"} => Len(P) = n /\ P[n] = 100

C6_Witness ==
  \E v \in Variants : \E w \in Threads(v) :
    /\ w.pc = "done"
    /\ Len(w.file_paths) = BatchA
    /\ \E k \in 1..Len(Progress(w)) :
         Progress(w)[k] = (100 * k) \div Len(w.file_paths) - 1

(***************************************************************************)
(* C5.  At most one worker runs at a time and the button is disabled while *)
(* it does; the button is re-enabled only by handle_finished; a worker is  *)
(* started only with the button enabled, no worker running and a non-empty *)
(* selection; closing the open dialog without a selection changes neither  *)
(* button, log, progress bar nor worker.                                   *)
(***************************************************************************)
C5_OneWorker ==
  \A v \in Variants :
    /\ Len(running(workers[v])) <= 1
    /\ running(workers[v]) # <<>> => ~btn_upload[v]

Started(v) ==
  /\ workers'[v] # <<>>
  /\ workers'[v][Len(workers'[v])].emitted = <<>>
  /\ workers'[v][Len(workers'[v])].file_paths # <<>>
  /\ workers'[v][Len(workers'[v])].pc = "status"
  /\ ~btn_upload'[v]

C5_Steps ==
  \A v \in Variants :
    /\ ~btn_upload[v] /\ btn_upload'[v] =>
         head_is(Cur(v), "finished") /\ events'[v] = Tail(events[v])
    /\ modal'[v] # modal[v] /\ workers'[v] # workers[v] =>
         /\ btn_upload[v]
         /\ running(workers[v]) = <<>>
         /\ top_dialog(Cur(v)) = "getOpenFileNames"
         /\ Started(v)
    /\ top_dialog(Cur(v)) = "getOpenFileNames" /\ Len(modal'[v]) < Len(modal[v]) =>
         \/ /\ btn_upload'[v] = btn_upload[v]
            /\ log_output'[v] = log_output[v]
            /\ pbar'[v] = pbar[v]
            /\ workers'[v] = workers[v]
         \/ Started(v) /\ workers'[v] # workers[v]

C5_SingleWorkerCycle == []C5_OneWorker /\ [][C5_Steps]_vars

C5_Witness ==
  \E v \in Variants :
    /\ Len(running(workers[v])) = 1
    /\ ~btn_upload[v]
    /\ workers[v][1].i = 1
    /\ log_output[v] # <<>>
    /\ pbar[v] > 0

(***************************************************************************)
(* C7.  The two variants emit the same progress values, hand the same rows *)
(* to the finished signal and keep the upload button in the same state.    *)
(* They differ in texts, and in one behaviour: when df.to_excel raises,    *)
(* ticket_app.py logs an error line and ticket_sorter.py logs nothing and  *)
(* lets the exception leave handle_finished.                               *)
(***************************************************************************)
C7_SameSignals ==
  /\ btn_upload["ticket_app"] = btn_upload["ticket_sorter"]
  /\ Len(workers["ticket_app"]) = Len(workers["ticket_sorter"])
  /\ \A j \in 1..Len(workers["ticket_app"]) :
       LET a == workers["ticket_app"][j]
           b == workers["ticket_sorter"][j]
       IN  /\ Progress(a) = Progress(b)
           /\ Args(Emitted(a, "finished")) = Args(Emitted(b, "finished"))
           /\ a.all_results = b.all_results

\* C7 as stated: the same signals and button, and no difference but in the
\* texts: the same number of log lines, the same slots returning normally.
C7_DifferOnlyInTexts ==
  /\ C7_SameSignals
  /\ Len(log_output["ticket_app"]) = Len(log_output["ticket_sorter"])
  /\ unhandled["ticket_app"] = unhandled["ticket_sorter"]

\* C7 amended: the same signals and button; no exception leaves a slot of
\* ticket_app.py; the logs have the same length except after a failed
\* df.to_excel, where ticket_app.py alone has logged one more line.
C7_VariantsAgree ==
  /\ C7_SameSignals
  /\ ~unhandled["ticket_app"]
  /\ Len(log_output["ticket_app"]) =
       Len(log_output["ticket_sorter"]) + (IF unhandled["ticket_sorter"] THEN 1 ELSE 0)
  /\ sheet["ticket_app"] = sheet["ticket_sorter"]

C7_Witness ==
  /\ unhandled["ticket_sorter"]
  /\ ~unhandled["ticket_app"]
  /\ btn_upload["ticket_app"]
  /\ \E w \in Threads("ticket_app") :
       /\ w.pc = "done"
       /\ w.file_paths = <<FilePdfFail, FilePdf>>
       /\ Len(w.all_results) = 2

(***************************************************************************)
(* C9.  A spreadsheet is written only for a non-empty result list and a    *)
(* chosen save path, and holds the accumulated rows in their order; with   *)
(* an empty result list the failure line is logged, no save dialog opens   *)
(* and nothing is written; without a written sheet no success is logged.  *)
(***************************************************************************)
FieldOrder ==
  <<"Ticket_ID", "Date_Time", "Applicant", "Disaster", "Program", "Contractor",
    "Sub-Contractor", "Crew", "Supervisor", "Hazard_Type", "GPS", "Address",
    "Measure", "Unit_Count", "Monitor">>

LastLine(v) == log_output[v][Len(log_output[v])]

HasLine(v, kind) == \E k \in 1..Len(log_output[v]) : log_output[v][k][1] = kind

C9_SheetIsResults ==
  \A v \in Variants :
    /\ save_dialogs[v] <= 1
    /\ sheet[v] # NoSheet =>
         /\ workers[v] # <<>>
         /\ LET w == workers[v][Len(workers[v])]
            IN  /\ w.pc = "done"
                /\ w.all_results # <<>>
                /\ Len(sheet[v]) = Len(w.all_results) + 1
                /\ sheet[v][1] = FieldOrder
                /\ \A k \in 1..Len(w.all_results) : \A c \in 1..Len(FieldOrder) :
                     sheet[v][k + 1][c] = w.all_results[k][FieldOrder[c]]
         /\ save_dialogs[v] = 1
         /\ LastLine(v)[1] = "success"
         /\ LastLine(v)[3] = SavePath
    /\ \A w \in Threads(v) :
         w.pc = "done" /\ w.all_results = <<>> /\ events[v] = <<>> =>
           /\ save_dialogs[v] = 0
           /\ sheet[v] = NoSheet
           /\ LastLine(v)[1] = "failed"
    /\ HasLine(v, "success") => sheet[v] # NoSheet

C9_Witness ==
  \E v \in Variants :
    /\ Len(sheet[v]) = 4
    /\ sheet[v][2] # sheet[v][3]
    /\ sheet[v][3] = sheet[v][4]

(***************************************************************************)
(* C8.  A worker emits the finished signal once, as its last signal, after *)
(* the progress signal of the last file; and every run ends: once the      *)
(* button is disabled it is enabled again.                                 *)
(***************************************************************************)
C8_FinishedLast ==
  \A v \in Variants : \A w \in Threads(v) :
    /\ w.pc # "done" => Emitted(w, "finished") = <<>>
    /\ w.pc = "done" =>
         /\ Len(Emitted(w, "finished")) = 1
         /\ w.emitted[Len(w.emitted)].sig = "finished"
         /\ w.emitted[Len(w.emitted) - 1].sig = "progress"
         /\ Len(Emitted(w, "progress")) = Len(w.file_paths)

C8_EveryRunEnds ==
  /\ []C8_FinishedLast
  /\ \A v \in Variants : (~btn_upload[v]) ~> btn_upload[v]

C8_Witness ==
  \E v \in Variants :
    /\ btn_upload[v]
    /\ modal[v] = <<>>
    /\ workers[v] # <<>>
    /\ workers[v][Len(workers[v])].pc = "done"
    /\ workers[v][Len(workers[v])].all_results = <<>>
    /\ HasLine(v, "failed")
====
